---- MODULE Spec2Model ----
(***************************************************************************)
(* The checker scheduler of qtc-cppcheck (src/src/CppcheckRunner.cpp): one *)
(* QProcess slot, a sorted queue of files waiting to be checked, the       *)
(* debounce single-shot timers, the two scratch files of the spill         *)
(* strategy and the progress handle.  Every handler of the class is one    *)
(* action; the Qt event loop delivers them one at a time.  Two handlers    *)
(* that turn text into a result have a specification of their own, over    *)
(* bounded texts: readError of the same class (SpecReadError) and finished *)
(* of the configuration editor, src/src/OptionsWidget.cpp (SpecOptions).   *)
(***************************************************************************)
EXTENDS Integers, Sequences, FiniteSets, TLC

(***************************************************************************)
(* Bounds of the model.                                                    *)
(***************************************************************************)
NFiles == 2
MaxTimers == 2
ScaledArgMax == 16
MaxLineLen == 6
MaxHelpLen == 5

(***************************************************************************)
(* Strings.  A file path is a number of 1..NFiles whose numeric order      *)
(* stands for QString's operator<; an include directory is a name; a fixed *)
(* or custom argument is a name.  Only the length of a string matters to   *)
(* the argument-length arithmetic, so each kind has a length.              *)
(***************************************************************************)
Files == 1..NFiles
Dirs == {"inc"}
IncludePrefixLength == 2

FileNameLength(f) == 3
DirLength(d) == 1
ArgumentLength(a) == 1

\* "-I" + i  (setIncludePaths) and i.mid (2) (checkQueuedFiles)
IncludeFlag(d) == <<"-I", d>>
Mid2(flag) == flag[2]
IncludeFlagLength(flag) == IncludePrefixLength + DirLength(flag[2])

RECURSIVE Sum(_)
Sum(lengths) ==
  IF Len(lengths) = 0 THEN 0 ELSE Head(lengths) + Sum(Tail(lengths))

FileNameLengths(s) == [i \in 1..Len(s) |-> FileNameLength(s[i])]
IncludeFlagLengths(s) == [i \in 1..Len(s) |-> IncludeFlagLength(s[i])]
ArgumentLengths(s) == [i \in 1..Len(s) |-> ArgumentLength(s[i])]

\* QStringList::join (" ").length (), from the lengths of the strings: the
\* strings and one separator between each two of them.
JoinLength(lengths) ==
  IF Len(lengths) = 0 THEN 0 ELSE Sum(lengths) + (Len(lengths) - 1)

(***************************************************************************)
(* QStringList helpers used by checkFiles.                                 *)
(***************************************************************************)
Contains(s, x) == \E i \in 1..Len(s) : s[i] = x

RECURSIVE RemoveDuplicatesFrom(_, _)
RemoveDuplicatesFrom(seen, s) ==
  IF s = <<>> THEN seen
  ELSE IF Contains(seen, Head(s)) THEN RemoveDuplicatesFrom(seen, Tail(s))
  ELSE RemoveDuplicatesFrom(Append(seen, Head(s)), Tail(s))

\* QStringList::removeDuplicates: the first occurrence of each string stays.
RemoveDuplicates(s) == RemoveDuplicatesFrom(<<>>, s)

RECURSIVE InsertSorted(_, _)
InsertSorted(x, s) ==
  IF s = <<>> THEN <<x>>
  ELSE IF x <= Head(s) THEN <<x>> \o s
  ELSE <<Head(s)>> \o InsertSorted(x, Tail(s))

RECURSIVE SortList(_)
SortList_Unsorted(s) == s
\* QStringList::sort: ascending.
SortList(s) ==
  IF s = <<>> THEN <<>> ELSE InsertSorted(Head(s), SortList(Tail(s)))

MergeQueue_Replace(queue, fileNames) == SortList(RemoveDuplicates(fileNames))
\* checkFiles, lines 102-104: append, removeDuplicates, sort.
MergeQueue(queue, fileNames) == SortList(RemoveDuplicates(queue \o fileNames))

SetOf(s) == {s[i] : i \in 1..Len(s)}

(***************************************************************************)
(* Inputs.                                                                 *)
(***************************************************************************)
\* checkFiles asserts a non-empty list; it may repeat a path and need not be
\* sorted: one path, or two paths in either order, possibly the same.
Requests == {<<f>> : f \in Files} \cup {<<f, g>> : f \in Files, g \in Files}
IncludePathChoices == {<<>>, <<"inc">>}
\* settings_->binaryFile ()
BinaryChoices == {"", "cppcheck"}
\* expander->expand (settings_->customParameters ()).split (' ', SkipEmptyParts)
CustomParameterChoices == {<<>>, <<"--custom">>}
\* settings_->checkUnused (), settings_->checkInconclusive (),
\* settings_->showId ()
SettingsChoices ==
  {[checkUnused |-> TRUE, checkInconclusive |-> FALSE, showId |-> TRUE],
   [checkUnused |-> FALSE, checkInconclusive |-> TRUE, showId |-> FALSE]}

(***************************************************************************)
(* State.                                                                  *)
(***************************************************************************)
VARIABLES
  runArguments_,            \* fixed argument template, built by updateSettings
  includePaths_,            \* "-I" flags, built by setIncludePaths
  fileCheckQueue_,          \* files waiting to be checked
  currentlyCheckingFiles_,  \* files of the last dispatch
  fileListFileContents_,    \* what the runner believes fileListFile_ holds
  fileListFile,             \* lines of the scratch file fileListFile_
  includeListFile,          \* lines of the scratch file includeListFile_
  procState,                \* QProcess::state () of process_
  procOpen,                 \* process_.isOpen ()
  killed,                   \* process_.kill () was called on the live process
  procFiles,                \* files the live process was launched over
  timers,                   \* pending QTimer::singleShot events
  futureInterface_,         \* progress handle: "NULL", "started", "finished"
  obs,                      \* what the last handler did (signals, start, log)
  burst,                    \* history: requests made while idle, not yet run
  rerun,                    \* history: re-request of the set being checked
  stopped,                  \* history: stopChecking on a live process
  showId_,                  \* settings_->showId () as of updateSettings
  stderrLine,               \* the line readError is about to read, trimmed
  newTask,                  \* what readError did with the last line
  processArguments_,        \* OptionsWidget: arguments of its process
  helpProcess,              \* OptionsWidget: QProcess::state () of its process
  outputString,             \* OptionsWidget: output read by the last finished
  editor                    \* OptionsWidget: what the last finished displayed

vars ==
  <<runArguments_, includePaths_, fileCheckQueue_, currentlyCheckingFiles_,
    fileListFileContents_, fileListFile, includeListFile, procState, procOpen,
    killed, procFiles, timers, futureInterface_, obs, burst, rerun, stopped,
    showId_, stderrLine, newTask, processArguments_, helpProcess, outputString,
    editor>>

readerVars == <<stderrLine, newTask>>
widgetVars == <<processArguments_, helpProcess, outputString, editor>>

\* Constructor, lines 28-36: max (getconf ARG_MAX, 32000) or 32767, scaled to
\* the string lengths of the model.
maxArgumentsLength_ == ScaledArgMax

NoObs == [outcome |-> "none", plan |-> "none", arguments |-> <<>>, includes |-> <<>>]

Min(a, b) == IF a <= b THEN a ELSE b

\* readError has emitted nothing; finished of the editor has shown nothing.
NoTask == [outcome |-> "none", line |-> <<>>, type |-> "", id |-> <<>>,
           description |-> <<>>, file |-> <<>>, lineNumber |-> 0]
NoEditor == [shown |-> FALSE, text |-> <<>>]

(***************************************************************************)
(* History of the scenarios the properties are about.  These records only  *)
(* watch the handlers; no handler reads them.                              *)
(*                                                                         *)
(* burst: the checkFiles calls made while no process is open and not yet   *)
(* dispatched: n of them, asking for the files req, with the files base    *)
(* already waiting before the first; starts counts the processes started   *)
(* since the first of them.                                                *)
(***************************************************************************)
BurstOff == [n |-> 0, req |-> {}, base |-> {}, starts |-> 0, aborted |-> FALSE]

\* A checkFiles call made while no process is open.
BurstRequest(b, queueBefore, fileNames) ==
  IF b.n = 1 /\ b.starts = 0 /\ ~b.aborted
  THEN [b EXCEPT !.n = 2, !.req = @ \cup SetOf(fileNames)]
  ELSE IF b.n = 2 /\ b.starts = 0 /\ ~b.aborted
  THEN BurstOff
  ELSE [n |-> 1, req |-> SetOf(fileNames), base |-> SetOf(queueBefore),
        starts |-> 0, aborted |-> FALSE]

\* A call of checkQueuedFiles with outcome o.
BurstDispatch(b, o) ==
  IF b.n = 0 THEN b
  ELSE IF o.outcome = "started"
  THEN [b EXCEPT !.starts = Min(@ + 1, 2), !.req = {}, !.base = {}]
  ELSE IF o.outcome = "aborted"
  THEN [b EXCEPT !.aborted = TRUE, !.req = {}, !.base = {}]
  ELSE IF o.outcome = "nobinary" THEN BurstOff
  ELSE b

(***************************************************************************)
(* rerun: fresh, a process was started and nothing was requested or        *)
(* stopped since; phase "killed", the set it runs over was requested again *)
(* while fresh; phase "done", the finished signal of that process was      *)
(* handled; starts counts the processes started since the re-request.      *)
(***************************************************************************)
RerunOff == [fresh |-> FALSE, phase |-> "off", starts |-> 0]

\* A checkFiles call made while the process is open.
RerunRequest(r, fileNames) ==
  IF r.fresh /\ SetOf(fileNames) = SetOf(procFiles)
  THEN [fresh |-> FALSE, phase |-> "killed", starts |-> 0]
  ELSE RerunOff

\* A call of checkQueuedFiles with outcome o; finishEvent: it is the call made
\* on the finished signal of the process.
RerunDispatch(r, o, finishEvent) ==
  LET phase == IF r.phase = "killed" /\ finishEvent THEN "done" ELSE r.phase
  IN IF o.outcome \in {"aborted", "nobinary"} THEN RerunOff
     ELSE IF o.outcome = "started"
     THEN [fresh |-> TRUE, phase |-> phase,
           starts |-> IF phase = "off" THEN 0 ELSE Min(r.starts + 1, 2)]
     ELSE [r EXCEPT !.phase = phase,
                    !.fresh = IF finishEvent THEN FALSE ELSE @]

(***************************************************************************)
(* stopped: phase "stopped", stopChecking was called on an open process    *)
(* and nothing was requested since (dropped: the queue it cleared held     *)
(* files); phase "finished", the end of that process was handled.          *)
(***************************************************************************)
StoppedOff == [phase |-> "off", dropped |-> FALSE, starts |-> 0]

StoppedDispatch(s, o, finishEvent) ==
  LET phase == IF s.phase = "stopped" /\ finishEvent THEN "finished" ELSE s.phase
  IN [s EXCEPT !.phase = phase,
               !.starts = IF phase /= "off" /\ o.outcome = "started" THEN 1 ELSE @]

(***************************************************************************)
(* Init: the state after the constructor, lines 25-53.                     *)
(***************************************************************************)
Init ==
  /\ runArguments_ = <<>>
  /\ includePaths_ = <<>>
  /\ fileCheckQueue_ = <<>>
  /\ currentlyCheckingFiles_ = <<>>
  /\ fileListFileContents_ = <<>>
  /\ fileListFile = <<>>
  /\ includeListFile = <<>>
  /\ procState = "NotRunning"
  /\ procOpen = FALSE
  /\ killed = FALSE
  /\ procFiles = <<>>
  /\ timers = 0
  /\ futureInterface_ = "NULL"
  /\ obs = NoObs
  /\ burst = BurstOff
  /\ rerun = RerunOff
  /\ stopped = StoppedOff
  /\ showId_ = FALSE
  /\ stderrLine = <<>>
  /\ newTask = NoTask
  /\ processArguments_ = <<>>
  /\ helpProcess = "NotRunning"
  /\ outputString = <<>>
  /\ editor = NoEditor

(***************************************************************************)
(* updateSettings, lines 64-90.  runArguments_ is cleared first, so the    *)
(* loop looking for a user "--enable" finds nothing.                       *)
(***************************************************************************)
UpdateSettings(checkUnused, checkInconclusive, showId) ==
  /\ showId_' = showId
  /\ runArguments_' =
       (IF checkUnused THEN <<>> ELSE <<"-j">>)
       \o <<IF checkUnused THEN "--enable,unusedFunction" ELSE "--enable">>
       \o (IF checkInconclusive THEN <<"--inconclusive">> ELSE <<>>)
       \o <<"--template">>
  /\ obs' = NoObs
  /\ UNCHANGED <<includePaths_, fileCheckQueue_, currentlyCheckingFiles_,
                 fileListFileContents_, fileListFile, includeListFile,
                 procState, procOpen, killed, procFiles, timers,
                 futureInterface_, burst, rerun, stopped, readerVars,
                 widgetVars>>

(***************************************************************************)
(* setIncludePaths, lines 92-98.                                           *)
(***************************************************************************)
SetIncludePaths(paths) ==
  /\ includePaths_' = [i \in 1..Len(paths) |-> IncludeFlag(paths[i])]
  /\ obs' = NoObs
  /\ UNCHANGED <<runArguments_, fileCheckQueue_, currentlyCheckingFiles_,
                 fileListFileContents_, fileListFile, includeListFile,
                 procState, procOpen, killed, procFiles, timers,
                 futureInterface_, burst, rerun, stopped, showId_,
                 readerVars, widgetVars>>

(***************************************************************************)
(* checkFiles, lines 100-117.                                              *)
(***************************************************************************)
ShouldKill_Never(queue, current) == FALSE
\* line 106
ShouldKill(queue, current) == queue = current

\* line 114: queueTimer_ itself is never started (singleShot is the static
\* QTimer::singleShot), so isActive () is false whenever it is asked.
QueueTimerIsActive == FALSE

CheckFiles(fileNames) ==
  LET queue == MergeQueue(fileCheckQueue_, fileNames)
  IN /\ fileCheckQueue_' = queue
     /\ obs' = NoObs
     /\ stopped' = StoppedOff
     /\ IF procOpen
        THEN /\ killed' = (killed \/ ShouldKill(queue, currentlyCheckingFiles_))
             /\ timers' = timers
             /\ burst' = BurstOff
             /\ rerun' = RerunRequest(rerun, fileNames)
        ELSE /\ timers < MaxTimers
             /\ timers' = IF ~QueueTimerIsActive THEN timers + 1 ELSE timers
             /\ killed' = killed
             /\ burst' = BurstRequest(burst, fileCheckQueue_, fileNames)
             /\ rerun' = RerunOff
     /\ UNCHANGED <<runArguments_, includePaths_, currentlyCheckingFiles_,
                    fileListFileContents_, fileListFile, includeListFile,
                    procState, procOpen, procFiles, futureInterface_,
                    showId_, readerVars, widgetVars>>

(***************************************************************************)
(* stopChecking, lines 119-124; also the cancel hook of the progress       *)
(* handle, line 248.                                                       *)
(***************************************************************************)
QueueAfterStop_Kept == fileCheckQueue_
\* line 120
QueueAfterStop == <<>>

StopChecking ==
  /\ fileCheckQueue_' = QueueAfterStop
  /\ killed' = (killed \/ procOpen)
  /\ obs' = NoObs
  /\ burst' = BurstOff
  /\ rerun' = RerunOff
  /\ stopped' = IF procOpen
                THEN [phase |-> "stopped", dropped |-> fileCheckQueue_ /= <<>>,
                      starts |-> 0]
                ELSE StoppedOff
  /\ UNCHANGED <<runArguments_, includePaths_, currentlyCheckingFiles_,
                 fileListFileContents_, fileListFile, includeListFile,
                 procState, procOpen, procFiles, timers, futureInterface_,
                 showId_, readerVars, widgetVars>>

(***************************************************************************)
(* checkQueuedFiles, lines 126-184.  It runs on a debounce timer and on    *)
(* the finished signal, the latter after the slot finished has closed the  *)
(* process: p is the process as the call finds it.  The settings it reads  *)
(* (binaryFile, customParameters, ignoreIncludePaths) and the outcome of   *)
(* opening the scratch files are inputs, drawn where the code reads them.  *)
(***************************************************************************)
QueueAfterDispatch_Kept == fileCheckQueue_
\* line 142
QueueAfterDispatch == <<>>

\* line 147
SpillDecision_Never(argumentLength, includesLength, filesLength) == FALSE
SpillDecision(argumentLength, includesLength, filesLength) ==
  argumentLength + includesLength + filesLength >= maxArgumentsLength_

\* The returns taken after the queue has been moved to the in-flight set.
NoDispatch_Dequeues(p, why) ==
  /\ obs' = [NoObs EXCEPT !.outcome = why]
  /\ procOpen' = p.open
  /\ procState' = p.state
  /\ killed' = p.killed
  /\ procFiles' = p.files
  /\ currentlyCheckingFiles_' = fileCheckQueue_
  /\ fileCheckQueue_' = <<>>
  /\ UNCHANGED <<fileListFileContents_, fileListFile, includeListFile>>

\* The returns of lines 127-133: nothing is touched.
NoDispatch(p, why) ==
  /\ obs' = [NoObs EXCEPT !.outcome = why]
  /\ procOpen' = p.open
  /\ procState' = p.state
  /\ killed' = p.killed
  /\ procFiles' = p.files
  /\ UNCHANGED <<fileCheckQueue_, currentlyCheckingFiles_,
                 fileListFileContents_, fileListFile, includeListFile>>

\* lines 134-184
Dispatch(p, customParameters, ignoreIncludePaths) ==
  LET arguments == customParameters \o runArguments_
      includes == IF ~ignoreIncludePaths THEN includePaths_ ELSE <<>>
      current == fileCheckQueue_
      argumentLength == JoinLength(ArgumentLengths(arguments))
      filesLength == JoinLength(FileNameLengths(current))
      includesLength == JoinLength(IncludeFlagLengths(includes))
      spill == SpillDecision(argumentLength, includesLength, filesLength)
      rewrite == spill /\ fileListFileContents_ /= current
      \* QProcess::start only warns and returns while the process runs.
      accepted == p.state = "NotRunning"
  IN \E openOk \in IF rewrite THEN BOOLEAN ELSE {TRUE} :
       LET abort == rewrite /\ ~openOk
       IN /\ currentlyCheckingFiles_' = current
          /\ fileCheckQueue_' = QueueAfterDispatch
          /\ fileListFileContents_' =
               IF rewrite THEN current ELSE fileListFileContents_
          \* resize (0) on both files, then the writes if both open.
          /\ fileListFile' =
               IF rewrite THEN (IF openOk THEN current ELSE <<>>)
               ELSE fileListFile
          /\ includeListFile' =
               IF rewrite
               THEN (IF openOk
                     THEN [i \in 1..Len(includes) |-> Mid2(includes[i])]
                     ELSE <<>>)
               ELSE includeListFile
          /\ obs' = [outcome |-> IF abort THEN "aborted"
                                 ELSE IF accepted THEN "started" ELSE "ignored",
                     plan |-> IF spill THEN "spill" ELSE "inline",
                     arguments |-> arguments,
                     includes |-> includes]
          /\ IF ~abort /\ accepted
             THEN /\ procOpen' = TRUE
                  /\ procState' = "Starting"
                  /\ killed' = FALSE
                  /\ procFiles' = current
             ELSE /\ procOpen' = p.open
                  /\ procState' = p.state
                  /\ killed' = p.killed
                  /\ procFiles' = p.files

CheckQueuedFiles(p) ==
  IF fileCheckQueue_ = <<>> THEN NoDispatch(p, "empty")
  ELSE \E binaryFile \in BinaryChoices :
         IF binaryFile = "" THEN NoDispatch(p, "nobinary")
         ELSE \E customParameters \in CustomParameterChoices,
                 ignoreIncludePaths \in BOOLEAN :
                Dispatch(p, customParameters, ignoreIncludePaths)

\* QTimer::singleShot (checkDelayInMs, this, &CppcheckRunner::checkQueuedFiles)
TimerFires ==
  /\ timers > 0
  /\ timers' = timers - 1
  /\ CheckQueuedFiles([open |-> procOpen, state |-> procState,
                       killed |-> killed, files |-> procFiles])
  /\ burst' = BurstDispatch(burst, obs')
  /\ rerun' = RerunDispatch(rerun, obs', FALSE)
  /\ stopped' = StoppedDispatch(stopped, obs', FALSE)
  /\ UNCHANGED <<runArguments_, includePaths_, futureInterface_, showId_,
                 readerVars, widgetVars>>

(***************************************************************************)
(* started, lines 238-251: the signal QProcess::started.                   *)
(***************************************************************************)
ProcessStarted ==
  /\ procState = "Starting"
  /\ procState' = "Running"
  /\ futureInterface_' = "started"
  /\ obs' = NoObs
  /\ UNCHANGED <<runArguments_, includePaths_, fileCheckQueue_,
                 currentlyCheckingFiles_, fileListFileContents_, fileListFile,
                 includeListFile, procOpen, killed, procFiles, timers, burst,
                 rerun, stopped, showId_, readerVars, widgetVars>>

(***************************************************************************)
(* finished, lines 263-272.                                                *)
(***************************************************************************)
ReportFinished_Forgotten(future) == future
\* lines 265-267
ReportFinished(future) == IF future /= "NULL" THEN "finished" ELSE future

\* The process after process_.close (), line 268.
ClosedProcess == [open |-> FALSE, state |-> "NotRunning", killed |-> FALSE,
                  files |-> <<>>]

(***************************************************************************)
(* error, lines 253-261, on QProcess::errorOccurred (FailedToStart): the   *)
(* slot finished is called as a function; the signal QProcess::finished is *)
(* not emitted, so the slots connected to it (lines 47-52) do not run.     *)
(***************************************************************************)
ProcessFailedToStart ==
  /\ procState = "Starting"
  /\ futureInterface_' = ReportFinished(futureInterface_)
  /\ procOpen' = ClosedProcess.open
  /\ procState' = ClosedProcess.state
  /\ killed' = ClosedProcess.killed
  /\ procFiles' = ClosedProcess.files
  /\ obs' = [NoObs EXCEPT !.outcome = "failedToStart"]
  /\ rerun' = RerunOff
  /\ stopped' = IF stopped.phase = "stopped"
                THEN [stopped EXCEPT !.phase = "finished"] ELSE stopped
  /\ UNCHANGED <<runArguments_, includePaths_, fileCheckQueue_,
                 currentlyCheckingFiles_, fileListFileContents_, fileListFile,
                 includeListFile, timers, burst, showId_, readerVars,
                 widgetVars>>

(***************************************************************************)
(* The signal QProcess::finished of a process that ran (it exited or was   *)
(* killed): the slots connected at lines 47-52 run in connection order,    *)
(* finished and then checkQueuedFiles.                                     *)
(***************************************************************************)
ProcessFinished ==
  /\ procState = "Running"
  /\ futureInterface_' = ReportFinished(futureInterface_)
  /\ CheckQueuedFiles(ClosedProcess)
  /\ burst' = BurstDispatch(burst, obs')
  /\ rerun' = RerunDispatch(rerun, obs', TRUE)
  /\ stopped' = StoppedDispatch(stopped, obs', TRUE)
  /\ UNCHANGED <<runArguments_, includePaths_, timers, showId_, readerVars,
                 widgetVars>>

(***************************************************************************)
(* Text.  A QString is a sequence of characters.  The operators below are  *)
(* the QString calls the two text handlers make.                           *)
(***************************************************************************)
\* QString::indexOf (t): the first position, counted from 0, at which t
\* occurs in s, or -1; the empty string occurs at 0.
IndexOf(s, t) ==
  LET positions == {i \in 0..(Len(s) - Len(t)) : SubSeq(s, i + 1, i + Len(t)) = t}
  IN IF positions = {} THEN -1
     ELSE CHOOSE i \in positions : \A j \in positions : i <= j

\* QString::mid (position, n), n = -1 for "to the end": a position before the
\* start is moved to the start and n shortened by as much.
Mid(s, position, n) ==
  IF position > Len(s) THEN <<>>
  ELSE IF position < 0
  THEN (IF n < 0 \/ n + position >= Len(s) THEN s
        ELSE IF n + position <= 0 THEN <<>>
        ELSE SubSeq(s, 1, n + position))
  ELSE IF n < 0 \/ n > Len(s) - position THEN SubSeq(s, position + 1, Len(s))
  ELSE SubSeq(s, position + 1, position + n)

RECURSIVE Split(_, _)
\* QString::split (sep), empty parts kept.
Split(s, sep) ==
  LET at == IndexOf(s, <<sep>>)
  IN IF at = -1 THEN <<s>>
     ELSE <<SubSeq(s, 1, at)>> \o Split(SubSeq(s, at + 2, Len(s)), sep)

RECURSIVE ToInt(_)
\* QString::toInt: the number the digits spell, 0 when the text is no number.
\* The only digit of the model's lines is "1".
ToInt(s) ==
  IF s = <<>> \/ \E i \in 1..Len(s) : s[i] /= "1" THEN 0
  ELSE IF Len(s) = 1 THEN 1
  ELSE 10 * ToInt(SubSeq(s, 1, Len(s) - 1)) + 1

(***************************************************************************)
(* readError, lines 210-236: one turn of its loop, on one line of the      *)
(* standard error of the process.  QString::trimmed has been applied: the  *)
(* characters of the model hold no white space, and the loop skips a line  *)
(* that is empty after trimming, so the lines are not empty.  There is no  *)
(* native separator among the characters either, which leaves the file     *)
(* name as it is read.                                                     *)
(***************************************************************************)
Chars == {",", "a", "1"}
Lines == UNION {[1..n -> Chars] : n \in 1..MaxLineLen}

\* enum ErrorField, lines 19-22
ErrorFieldFile == 0
ErrorFieldLine == 1
ErrorFieldSeverity == 2
ErrorFieldId == 3
ErrorFieldMessage == 4

\* details.at (field); TLA+ sequences count from 1.
DetailsAt(details, field) == details[field + 1]

\* line 228, details.at (ErrorFieldSeverity).at (0): QString::at requires a
\* valid position.  On an empty severity the behaviour is undefined: a build
\* with assertions stops in Q_ASSERT ("abort"), one without them reads the
\* terminator of the string data ("NUL").
SeverityTypes(severity) ==
  IF severity /= <<>> THEN {severity[1]} ELSE {"abort", "NUL"}

\* lines 229-232
TaskId(showId, details) ==
  IF showId THEN DetailsAt(details, ErrorFieldId) ELSE <<>>

\* line 223
TooFewDetails(details) == Len(details) <= ErrorFieldMessage

ReadError ==
  /\ stderrLine /= <<>>
  /\ newTask.outcome /= "abort"
  /\ LET line == stderrLine
         details == Split(line, ",")
     IN IF TooFewDetails(details)
        THEN newTask' = [NoTask EXCEPT !.outcome = "discarded", !.line = line]
        ELSE \E type \in SeverityTypes(DetailsAt(details, ErrorFieldSeverity)) :
               newTask' =
                 IF type = "abort"
                 THEN [NoTask EXCEPT !.outcome = "abort", !.line = line]
                 ELSE [outcome |-> "emitted",
                       line |-> line,
                       type |-> type,
                       id |-> TaskId(showId_, details),
                       description |->
                         Mid(line,
                             IndexOf(line, DetailsAt(details, ErrorFieldMessage)),
                             -1),
                       file |-> DetailsAt(details, ErrorFieldFile),
                       lineNumber |-> ToInt(DetailsAt(details, ErrorFieldLine))]
  /\ stderrLine' = <<>>
  /\ UNCHANGED <<runArguments_, includePaths_, fileCheckQueue_,
                 currentlyCheckingFiles_, fileListFileContents_, fileListFile,
                 includeListFile, procState, procOpen, killed, procFiles,
                 timers, futureInterface_, obs, burst, rerun, stopped, showId_,
                 widgetVars>>

\* The signal QProcess::readyReadStandardError, line 41: the running process
\* has written a line.
ReadyReadStandardError(line) ==
  /\ procState = "Running"
  /\ stderrLine = <<>>
  /\ newTask.outcome /= "abort"
  /\ stderrLine' = line
  /\ newTask' = NoTask
  /\ UNCHANGED <<runArguments_, includePaths_, fileCheckQueue_,
                 currentlyCheckingFiles_, fileListFileContents_, fileListFile,
                 includeListFile, procState, procOpen, killed, procFiles,
                 timers, futureInterface_, obs, burst, rerun, stopped, showId_,
                 widgetVars>>

\* The runner while its process runs over one file, as Spec reaches it by
\* checkFiles, the debounce timer and started; the process has written nothing
\* yet.
InitReadError ==
  /\ runArguments_ = <<>>
  /\ includePaths_ = <<>>
  /\ fileCheckQueue_ = <<>>
  /\ currentlyCheckingFiles_ = <<1>>
  /\ fileListFileContents_ = <<>>
  /\ fileListFile = <<>>
  /\ includeListFile = <<>>
  /\ procState = "Running"
  /\ procOpen = TRUE
  /\ killed = FALSE
  /\ procFiles = <<1>>
  /\ timers = 0
  /\ futureInterface_ = "started"
  /\ obs = NoObs
  /\ burst = [BurstOff EXCEPT !.n = 1, !.starts = 1]
  /\ rerun = [RerunOff EXCEPT !.fresh = TRUE]
  /\ stopped = StoppedOff
  /\ showId_ = FALSE
  /\ stderrLine = <<>>
  /\ newTask = NoTask
  /\ processArguments_ = <<>>
  /\ helpProcess = "NotRunning"
  /\ outputString = <<>>
  /\ editor = NoEditor

NextReadError ==
  \/ \E s \in SettingsChoices :
       UpdateSettings(s.checkUnused, s.checkInconclusive, s.showId)
  \/ \E line \in Lines : ReadyReadStandardError(line)
  \/ ReadError

SpecReadError == InitReadError /\ [][NextReadError]_vars

(***************************************************************************)
(* The configuration editor, src/src/OptionsWidget.cpp: its help button    *)
(* runs the binary with --help, and finished shows the part of the output  *)
(* between two markers.  The output is a sequence of pieces of text, each  *)
(* one of the markers or text that holds neither; a position in it counts  *)
(* pieces.  QString::trimmed has been applied: no piece is white space.    *)
(***************************************************************************)
helpArg == "--help"
OptionsMarker == "Options:"
ExampleMarker == "Example usage:"
HelpPieces == {OptionsMarker, ExampleMarker, "text"}
HelpOutputs == UNION {[1..n -> HelpPieces] : n \in 0..MaxHelpLen}

\* getPossibleParams, lines 42-49.  QProcess::start on a running process only
\* warns.
GetPossibleParams(binary) ==
  /\ IF binary = ""
     THEN UNCHANGED <<processArguments_, helpProcess>>
     ELSE /\ processArguments_' = <<helpArg>>
          /\ helpProcess' = "Running"
  /\ UNCHANGED <<runArguments_, includePaths_, fileCheckQueue_,
                 currentlyCheckingFiles_, fileListFileContents_, fileListFile,
                 includeListFile, procState, procOpen, killed, procFiles,
                 timers, futureInterface_, obs, burst, rerun, stopped, showId_,
                 readerVars, outputString, editor>>

\* lines 55-66: what finished shows for the output.
OptionsShown(output) ==
  LET startIndex == IndexOf(output, <<OptionsMarker>>)
      endIndex == IndexOf(output, <<ExampleMarker>>)
  IN IF startIndex >= endIndex THEN NoEditor
     ELSE [shown |-> TRUE, text |-> Mid(output, startIndex, endIndex - startIndex)]

\* finished, lines 51-68, on the signal QProcess::finished of the help run.
OptionsFinished(output) ==
  /\ helpProcess = "Running"
  /\ helpProcess' = "NotRunning"
  /\ outputString' = output
  /\ editor' = IF Contains(processArguments_, helpArg)
               THEN OptionsShown(output) ELSE NoEditor
  /\ UNCHANGED <<runArguments_, includePaths_, fileCheckQueue_,
                 currentlyCheckingFiles_, fileListFileContents_, fileListFile,
                 includeListFile, procState, procOpen, killed, procFiles,
                 timers, futureInterface_, obs, burst, rerun, stopped, showId_,
                 readerVars, processArguments_>>

\* The binary cannot be run: QProcess emits errorOccurred, which the editor
\* does not handle, and no finished signal.
HelpFailedToStart ==
  /\ helpProcess = "Running"
  /\ helpProcess' = "NotRunning"
  /\ UNCHANGED <<runArguments_, includePaths_, fileCheckQueue_,
                 currentlyCheckingFiles_, fileListFileContents_, fileListFile,
                 includeListFile, procState, procOpen, killed, procFiles,
                 timers, futureInterface_, obs, burst, rerun, stopped, showId_,
                 readerVars, processArguments_, outputString, editor>>

NextOptions ==
  \/ \E binary \in BinaryChoices : GetPossibleParams(binary)
  \/ \E output \in HelpOutputs : OptionsFinished(output)
  \/ HelpFailedToStart

SpecOptions == Init /\ [][NextOptions]_vars

Next ==
  \/ \E s \in SettingsChoices :
       UpdateSettings(s.checkUnused, s.checkInconclusive, s.showId)
  \/ \E paths \in IncludePathChoices : SetIncludePaths(paths)
  \/ \E fileNames \in Requests : CheckFiles(fileNames)
  \/ StopChecking
  \/ TimerFires
  \/ ProcessStarted
  \/ ProcessFailedToStart
  \/ ProcessFinished

Spec == Init /\ [][Next]_vars

(***************************************************************************)
(* Properties.                                                             *)
(***************************************************************************)
RECURSIVE SortedSeqOf(_)
\* The elements of a set of paths in ascending order, each once.
SortedSeqOf(S) ==
  IF S = {} THEN <<>>
  ELSE LET least == CHOOSE x \in S : \A y \in S : x <= y
       IN <<least>> \o SortedSeqOf(S \ {least})

StrictlyAscending(s) == \A i \in 1..(Len(s) - 1) : s[i] < s[i + 1]

\* The step in which the first process since the burst began is started.
BurstServed == burst.n >= 1 /\ burst.starts = 0 /\ burst'.starts = 1

C3_AsClaimed ==
  /\ [](rerun.phase = "killed" => killed /\ rerun.starts = 0)
  /\ [](rerun.phase = "done" => rerun.starts = 1)
  /\ [][rerun.phase = "killed" /\ rerun'.phase = "done" =>
          obs'.outcome = "started" /\ procFiles' = procFiles]_vars

\* C4: after stopChecking on an open process the queue is empty and the
\* process is killed, and neither the finish event of that process nor a timer
\* starts a process, as long as checkFiles is not called again.
C4_StopStartsNothing ==
  /\ stopped.phase = "stopped" =>
       fileCheckQueue_ = <<>> /\ killed /\ stopped.starts = 0
  /\ stopped.phase = "finished" =>
       fileCheckQueue_ = <<>> /\ ~procOpen /\ stopped.starts = 0

C4_Witness == stopped.phase = "finished" /\ stopped.dropped /\ obs.outcome = "empty"

C6_ProgressHandleIffRunning ==
  (futureInterface_ = "started") <=> (procState = "Running")

C6_Witness == obs.outcome = "failedToStart" /\ futureInterface_ = "finished"

\* C7 as claimed: the handler of a failed-to-start error drains the queue, so
\* no file is left waiting after it.
C7_AsClaimed == obs.outcome = "failedToStart" => fileCheckQueue_ = <<>>

\* C8 as claimed: when the dispatch gives up on a scratch file, the files it
\* was about to dispatch are still in the queue.
C8_AsClaimed ==
  obs.outcome = "aborted" =>
    /\ ~(procState = "Starting" /\ procFiles = currentlyCheckingFiles_)
    /\ SetOf(currentlyCheckingFiles_) \subseteq SetOf(fileCheckQueue_)

\* C9 as claimed: when a process is started with the spill strategy, the
\* file-list scratch file holds the dispatched files, one per line, in order.
C9_AsClaimed ==
  obs.outcome = "started" /\ obs.plan = "spill" => fileListFile = procFiles

\* The length of fixed arguments, include arguments and file arguments joined
\* into one list by single spaces.
WouldBeLength ==
  JoinLength(ArgumentLengths(obs.arguments)
             \o IncludeFlagLengths(obs.includes)
             \o FileNameLengths(currentlyCheckingFiles_))

\* C10 as claimed: the files are passed inline exactly when that length is
\* below the ceiling.
C10_AsClaimed ==
  obs.plan /= "none" =>
    ((obs.plan = "inline") <=> (WouldBeLength < maxArgumentsLength_))

(***************************************************************************)
(* The fields of a line as the claims speak of them: the texts between its *)
(* commas, counted from 1.                                                 *)
(***************************************************************************)
CommaPositions(line) == {i \in 1..Len(line) : line[i] = ","}

FieldCount(line) == Cardinality(CommaPositions(line)) + 1

NthComma(line, n) ==
  CHOOSE i \in CommaPositions(line) :
    Cardinality({j \in CommaPositions(line) : j <= i}) = n

FieldOf(line, k) ==
  SubSeq(line,
         IF k = 1 THEN 1 ELSE NthComma(line, k - 1) + 1,
         IF k < FieldCount(line) THEN NthComma(line, k) - 1 ELSE Len(line))

\* C11 as claimed: the message of the finding emitted for a line of at least
\* five fields is the text of the line after its fourth comma, to the end of
\* the line, whatever the first four fields hold.  The lines with an empty
\* severity, on which the handler's behaviour is undefined, are left aside.
C11_AsClaimed ==
  newTask.outcome = "emitted" /\ newTask.type /= "NUL" =>
    newTask.description =
      SubSeq(newTask.line, NthComma(newTask.line, 4) + 1, Len(newTask.line))

\* C12 as claimed: reading a line of fewer than five fields emits no finding
\* and does not fail; reading a line of five fields or more emits one finding,
\* whose id is the fourth field when show-id is on and empty otherwise.
C12_AsClaimed ==
  [][stderrLine /= <<>> /\ stderrLine' = <<>> =>
       IF FieldCount(stderrLine) < 5
       THEN newTask'.outcome = "discarded"
       ELSE /\ newTask'.outcome = "emitted"
            /\ newTask'.id = IF showId_ THEN FieldOf(stderrLine, 4) ELSE <<>>]_vars

\* The steps in which checkQueuedFiles is called: by a debounce timer, and on
\* the finished signal of a process that ran, after the slot finished.
CalledByTimer == timers' = timers - 1
CalledOnFinish == procState = "Running" /\ procState' /= "Running"

\* C13: a call of checkQueuedFiles that finds the queue empty or the binary
\* path unset changes neither the queue, the in-flight set nor the scratch
\* files and their believed contents, leaves the process as the call found it
\* (closed by the slot finished, on the finished signal), emits no
\* checking-started event and starts no process.
C13_NoOpWithoutQueueOrBinary ==
  [][(CalledByTimer \/ CalledOnFinish)
       /\ (fileCheckQueue_ = <<>> \/ obs'.outcome = "nobinary")
     => /\ UNCHANGED <<fileCheckQueue_, currentlyCheckingFiles_,
                       fileListFileContents_, fileListFile, includeListFile>>
        /\ obs'.outcome \in {"empty", "nobinary"}
        /\ IF CalledByTimer
           THEN UNCHANGED <<procState, procOpen, killed, procFiles>>
           ELSE procState' = "NotRunning" /\ ~procOpen']_vars

C13_Witness ==
  /\ obs.outcome = "nobinary" /\ procOpen
  /\ fileCheckQueue_ /= <<>> /\ currentlyCheckingFiles_ /= <<>>
  /\ fileCheckQueue_ /= currentlyCheckingFiles_

\* C14 as claimed: the help run shows options text only if its output holds the
\* marker Options: and, somewhere after it, the marker Example usage:.
C14_AsClaimed ==
  editor.shown =>
    \E i, j \in 1..Len(outputString) :
      /\ i < j
      /\ outputString[i] = OptionsMarker
      /\ outputString[j] = ExampleMarker

\* C15 as claimed: files requested while the process runs over another set
\* (they wait in the queue of a running process that is not killed) leave the
\* queue only when stopChecking clears it or when the call of checkQueuedFiles
\* on the finished signal of that process starts a process over them.
C15_AsClaimed ==
  [][/\ procState = "Running" /\ ~killed
     /\ fileCheckQueue_ /= <<>> /\ fileCheckQueue_ /= procFiles
     /\ SetOf(fileCheckQueue_) \ SetOf(fileCheckQueue_') /= {}
     => \/ obs'.outcome = "none"
        \/ /\ CalledOnFinish
           /\ obs'.outcome = "started"
           /\ SetOf(fileCheckQueue_) \subseteq SetOf(procFiles')]_vars

\* C16 as claimed: a timer's call of checkQueuedFiles dequeues and starts only
\* when no process is open, so every checking-started event goes with a process
\* that starts over the in-flight set of that event.
C16_AsClaimed ==
  [][obs'.outcome \in {"started", "ignored"}
     => /\ CalledByTimer => ~procOpen
        /\ procState' = "Starting"
        /\ procFiles' = currentlyCheckingFiles_']_vars

\* C17 as claimed: a checkFiles call on a running process that is not killed
\* yet kills it exactly when the merged queue is the list of files the process
\* was launched with.
C17_AsClaimed ==
  [][/\ procState = "Running" /\ ~killed
     /\ obs'.outcome = "none" /\ fileCheckQueue_' /= <<>>
     /\ (killed' \/ SetOf(fileCheckQueue_') /= SetOf(fileCheckQueue_))
     => (killed' <=> fileCheckQueue_' = procFiles)]_vars

\* C18 as claimed: at most one debounce dispatch is pending.
C18_AsClaimed == timers <= 1

\* The include directories of a list of include flags, prefix stripped.
IncludeDirs(flags) == [i \in 1..Len(flags) |-> flags[i][2]]

\* C19 as claimed: when a process is started with the spill strategy (and the
\* file-list scratch file holds the dispatched files), the include-list scratch
\* file holds the include directories of that invocation, one per line.
C19_AsClaimed ==
  obs.outcome = "started" /\ obs.plan = "spill" /\ fileListFile = procFiles
    => includeListFile = IncludeDirs(obs.includes)

====
